---- MODULE Spec2Model ----
\* Model of the CSV ingestion pipeline of src/csv_loader.py (class CSVLoader)
\* over the relational store declared in src/models.py and the session
\* factory of src/database.py.
EXTENDS Integers, Sequences, FiniteSets, TLC

\* ------------------------------------------------------------------ bounds
\* Longest frame (number of data rows) a load is given.
MaxRows == 2

\* ------------------------------------------------------------------ cells
\* pandas' missing value (an empty field of the file).
NaN == "<NaN>"

\* required_columns of _load_master_data; each names a reference category.
required_columns == <<"aduana", "pais", "tipo_regimen", "tipo_unidad_medida", "sac">>

Categories == {required_columns[i] : i \in 1..Len(required_columns)}

\* Every column _load_declarations reads by name (the numeric columns go
\* through _safe_float_conversion, which never rejects a row, and are left out).
AllColumns == Categories \cup {"correlativo", "fecha_declaracion", "descripcion"}

digits == <<"0", "1", "2", "3", "4", "5", "6", "7", "8", "9">>

\* str() of a non-negative integer cell: its decimal digits.
RECURSIVE Str(_)
Str(n) == IF n < 10 THEN digits[n + 1] ELSE Str(n \div 10) \o digits[(n % 10) + 1]

\* ------------------------------------------------------------------ dates
\* A date cell is a string given as the sequence of its characters.
IsDigit(c) == \E i \in 1..10 : digits[i] = c

DigitValue(c) == (CHOOSE i \in 1..10 : digits[i] = c) - 1

\* str.strip(): drop the blanks at both ends.
RECURSIVE LStrip(_)
LStrip(s) == IF s # <<>> /\ Head(s) = " " THEN LStrip(Tail(s)) ELSE s

RECURSIVE RStrip(_)
RStrip(s) == IF s # <<>> /\ s[Len(s)] = " " THEN RStrip(SubSeq(s, 1, Len(s) - 1)) ELSE s

Strip(s) == RStrip(LStrip(s))

Contains(s, c) == \E i \in 1..Len(s) : s[i] = c

\* str.split(sep): the fields between the separators, in order.
RECURSIVE Split(_, _)
Split(s, sep) ==
    IF ~Contains(s, sep) THEN <<s>>
    ELSE LET k == CHOOSE i \in 1..Len(s) : s[i] = sep /\ \A j \in 1..(i - 1) : s[j] # sep
         IN  <<SubSeq(s, 1, k - 1)>> \o Split(SubSeq(s, k + 1, Len(s)), sep)

\* int(text) succeeds on a non-empty run of digits.
IsInt(s) == s # <<>> /\ \A i \in 1..Len(s) : IsDigit(s[i])

RECURSIVE ToInt(_)
ToInt(s) == IF Len(s) = 1 THEN DigitValue(s[1])
            ELSE ToInt(SubSeq(s, 1, Len(s) - 1)) * 10 + DigitValue(s[Len(s)])

IsLeap(y) == (y % 4 = 0 /\ y % 100 # 0) \/ y % 400 = 0

DaysInMonth(y, m) ==
    IF m = 2 THEN (IF IsLeap(y) THEN 29 ELSE 28)
    ELSE IF m \in {4, 6, 9, 11} THEN 30 ELSE 31

\* datetime(year, month, day) raises ValueError outside the calendar.
ValidDate(y, m, d) ==
    /\ y >= 1 /\ y <= 9999
    /\ m >= 1 /\ m <= 12
    /\ d >= 1 /\ d <= DaysInMonth(y, m)

ValueError == [error |-> "ValueError"]

IsDate(v) == "year" \in DOMAIN v

\* The pivot moved down by one year.
PivotM(yy) == IF yy >= 50 THEN 1900 + yy ELSE 2000 + yy

\* The century pivot of _parse_date for a two-digit year.
Pivot(yy) == IF yy > 50 THEN 1900 + yy ELSE 2000 + yy

\* _parse_date: the date of a D/M/Y or Y-M-D string, or ValueError.
ParseDate(fecha_str) ==
    LET s == Strip(fecha_str) IN
    IF s = <<>> THEN ValueError
    ELSE IF Contains(s, "/") THEN
        LET fecha_parts == Split(s, "/") IN
        IF Len(fecha_parts) # 3 THEN ValueError
        ELSE LET day == Strip(fecha_parts[1])
                 month == Strip(fecha_parts[2])
                 year == fecha_parts[3]
             IN  IF ~IsInt(Strip(year)) \/ ~IsInt(month) \/ ~IsInt(day) THEN ValueError
                 ELSE LET y == IF Len(year) = 2 THEN Pivot(ToInt(Strip(year))) ELSE ToInt(Strip(year))
                      IN  IF ValidDate(y, ToInt(month), ToInt(day))
                          THEN [year |-> y, month |-> ToInt(month), day |-> ToInt(day)]
                          ELSE ValueError
    ELSE IF Contains(s, "-") THEN
        LET p == Split(s, "-") IN
        IF Len(p) # 3 \/ ~(\A i \in 1..3 : IsInt(p[i])) THEN ValueError
        ELSE IF Len(p[1]) # 4 \/ Len(p[2]) > 2 \/ Len(p[3]) > 2 THEN ValueError
        ELSE IF ValidDate(ToInt(p[1]), ToInt(p[2]), ToInt(p[3]))
             THEN [year |-> ToInt(p[1]), month |-> ToInt(p[2]), day |-> ToInt(p[3])]
             ELSE ValueError
    ELSE ValueError

\* ------------------------------------------------------------------ frames
\* The cell values the bounded inputs are drawn from.
AduanaValues == {"A1", "A2", NaN}

SacValues == {7, 12}

FechaValues == {<<"0", "1", "/", "0", "2", "/", "2", "3">>, <<>>}

\* _parse_date on the date cells above, worked out once.
ParsedFecha == [s \in FechaValues |-> ParseDate(s)]

\* _parse_date as _load_declarations calls it on a cell (line 279).
ParseCell(s) == IF s \in DOMAIN ParsedFecha THEN ParsedFecha[s] ELSE ParseDate(s)

\* A data row of a decoded frame: one cell per column. The rows differ in the
\* port or in the tariff code, or carry one defect (a missing port, a bad date).
Rows ==
    {r \in [aduana : AduanaValues, pais : {"P1"}, tipo_regimen : {"R1"},
            tipo_unidad_medida : {"U1"}, sac : SacValues, correlativo : {"C1"},
            descripcion : {"D1"}, fecha_declaracion : FechaValues] :
        \/ r.aduana = "A1"
        \/ r.sac = 7 /\ r.fecha_declaracion # <<>>} \
    {r \in [aduana : {"A1"}, pais : {"P1"}, tipo_regimen : {"R1"},
            tipo_unidad_medida : {"U1"}, sac : {12}, correlativo : {"C1"},
            descripcion : {"D1"}, fecha_declaracion : {<<>>}] : TRUE}

RowSeqs == UNION {[1..n -> Rows] : n \in 0..MaxRows}

\* Headers a decoded frame can have: complete, or lacking a reference column.
ColumnSets == {AllColumns, AllColumns \ {"pais"}}

\* A decoded frame (pandas DataFrame): its columns and its rows in file order.
\* The rows of a frame that lacks a column are taken all alike: their cells
\* are never read past the column checks.
Frames ==
    {[columns |-> AllColumns, rows |-> rs] : rs \in RowSeqs}
    \cup {[columns |-> c, rows |-> rs] :
            c \in ColumnSets \ {AllColumns},
            rs \in {r \in RowSeqs : \A i \in 1..Len(r) : r[i] = r[1]}}

\* Python's None, where a frame or a result is expected.
PyNone == [none |-> TRUE]

IsNone(v) == "none" \in DOMAIN v

\* ------------------------------------------------------------------ store
\* The five reference tables of models.py: rows (id, natural key), the key
\* UNIQUE within its table.
EmptyRefs == [c \in Categories |-> {}]

\* The natural key a cell is stored and looked up under: str() for sac
\* (CodigoSAC.codigo == str(...)), the cell itself elsewhere.
KeyOf(cat, v) == IF cat = "sac" THEN Str(v) ELSE v

\* The unique values taken without dropna().
IsNaM(cat, v) == FALSE

\* pandas isna on a cell of the column (the numeric sac cells used here are
\* never missing).
IsNa(cat, v) == IF cat = "sac" THEN FALSE ELSE v = NaN

\* df[col].dropna().unique(): the distinct present values in order of first
\* appearance.
RECURSIVE UniqueFrom(_, _, _)
UniqueFrom(rows, cat, seen) ==
    IF rows = <<>> THEN <<>>
    ELSE LET v == Head(rows)[cat] IN
         IF IsNa(cat, v) \/ v \in seen THEN UniqueFrom(Tail(rows), cat, seen)
         ELSE <<v>> \o UniqueFrom(Tail(rows), cat, seen \cup {v})

Unique(df, cat) == UniqueFrom(df.rows, cat, {})

\* session.query(Entity).filter(key == k).first(): the persisted entity, or
\* None. Reference entities are only ever queried after their commit.
NoEntity == [id |-> 0, key |-> ""]

Lookup(refs_, cat, k) ==
    IF \E e \in refs_[cat] : e.key = k
    THEN CHOOSE e \in refs_[cat] : e.key = k
    ELSE NoEntity

\* The next value of an Integer primary key: one past the largest in the table.
MaxId(table) == IF table = {} THEN 0 ELSE CHOOSE m \in {e.id : e \in table} : \A e \in table : e.id <= m

\* The keys _load_master_data stages for a category: each unique value of the
\* column with no persisted entity, in order.
RECURSIVE StageKeys(_, _, _)
StageKeys(values, refs_, cat) ==
    IF values = <<>> THEN <<>>
    ELSE LET k == KeyOf(cat, Head(values)) IN
         IF Lookup(refs_, cat, k) = NoEntity
         THEN <<k>> \o StageKeys(Tail(values), refs_, cat)
         ELSE StageKeys(Tail(values), refs_, cat)

\* The column check left out.
missing_columnsM(df) == {}

missing_columns(df) == {c \in Categories : c \notin df.columns}

\* What one call of _load_master_data hands to commit(), per category.
MasterStaged(df, refs_) ==
    IF missing_columns(df) # {} THEN [c \in Categories |-> <<>>]
    ELSE [c \in Categories |->
            IF c \in df.columns THEN StageKeys(Unique(df, c), refs_, c) ELSE <<>>]

\* INSERT of the staged keys: ids continue the table in staging order.
InsertRefs(table, keys) ==
    table \cup {[id |-> MaxId(table) + i, key |-> keys[i]] : i \in 1..Len(keys)}

\* The UNIQUE constraint on the natural key (models.py): the flush raises
\* IntegrityError when a staged key repeats or is already in the table.
UniqueViolated(table, keys) ==
    \/ \E i \in 1..Len(keys) : \E e \in table : e.key = keys[i]
    \/ \E i, j \in 1..Len(keys) : i # j /\ keys[i] = keys[j]

\* The fact table of models.py: no UNIQUE constraint beyond the primary key.
EmptyStore == [refs |-> EmptyRefs, decls |-> {}]

\* sessionmaker(autocommit=False, autoflush=False): a query does not flush the
\* session first, so it reads the committed rows only.
autoflush == FALSE

\* The duplicate check keyed on the port instead of the tariff code.
NaturalKeyM(d) == <<d.correlativo, d.aduana_id, d.descripcion>>

NaturalKey(d) == <<d.correlativo, d.codigo_sac_id, d.descripcion>>

\* The rows a query of _load_declarations matches against.
Visible(decls_, staged_) ==
    {NaturalKey(d) : d \in decls_}
    \cup (IF autoflush THEN {NaturalKey(staged_[i]) : i \in 1..Len(staged_)} ELSE {})

\* The five lookups of a row (lines 267-271).
RowRefs(refs_, row) == [c \in Categories |-> Lookup(refs_, c, KeyOf(c, row[c]))]

\* The port's foreign key taken from the country.
DeclaracionM(row, found, fecha) ==
    [correlativo |-> row.correlativo, fecha_declaracion |-> fecha,
     descripcion |-> row.descripcion,
     aduana_id |-> found["pais"].id, pais_id |-> found["pais"].id,
     tipo_regimen_id |-> found["tipo_regimen"].id,
     unidad_medida_id |-> found["tipo_unidad_medida"].id,
     codigo_sac_id |-> found["sac"].id]

\* The record _load_declarations builds for a row (lines 293-308).
Declaracion(row, found, fecha) ==
    [correlativo |-> row.correlativo, fecha_declaracion |-> fecha,
     descripcion |-> row.descripcion,
     aduana_id |-> found["aduana"].id, pais_id |-> found["pais"].id,
     tipo_regimen_id |-> found["tipo_regimen"].id,
     unidad_medida_id |-> found["tipo_unidad_medida"].id,
     codigo_sac_id |-> found["sac"].id]

\* A duplicate counted as an error.
RowOutcomeM(df, row, found, fecha, decls_, staged_) ==
    IF \E c \in Categories : c \notin df.columns THEN "rejected"
    ELSE IF \E c \in Categories : found[c] = NoEntity THEN "rejected"
    ELSE IF "fecha_declaracion" \notin df.columns THEN "rejected"
    ELSE IF ~IsDate(fecha) THEN "rejected"
    ELSE IF "correlativo" \notin df.columns \/ "descripcion" \notin df.columns
         THEN "rejected"
    ELSE IF <<row.correlativo, found["sac"].id, row.descripcion>> \in Visible(decls_, staged_)
         THEN "rejected"
    ELSE "staged"

\* What the loop body of _load_declarations does with one row, given the five
\* entities its lookups found and what _parse_date made of its date: "rejected"
\* (error_count += 1), "duplicate" (existing found: nothing is done) or
\* "staged" (db.add, success_count += 1).
RowOutcome(df, row, found, fecha, decls_, staged_) ==
    IF \E c \in Categories : c \notin df.columns THEN "rejected"
    ELSE IF \E c \in Categories : found[c] = NoEntity THEN "rejected"
    ELSE IF "fecha_declaracion" \notin df.columns THEN "rejected"
    ELSE IF ~IsDate(fecha) THEN "rejected"
    ELSE IF "correlativo" \notin df.columns \/ "descripcion" \notin df.columns
         THEN "rejected"
    ELSE IF <<row.correlativo, found["sac"].id, row.descripcion>> \in Visible(decls_, staged_)
         THEN "duplicate"
    ELSE "staged"

\* The loop left at the first rejected row.
RECURSIVE DeclLoopM(_, _, _, _, _)
DeclLoopM(df, i, refs_, decls_, st) ==
    IF i > Len(df.rows) THEN st
    ELSE LET row == df.rows[i]
             found == RowRefs(refs_, row)
             fecha == ParseCell(row.fecha_declaracion)
             o == RowOutcome(df, row, found, fecha, decls_, st.staged)
         IN  IF o = "staged"
             THEN DeclLoopM(df, i + 1, refs_, decls_,
                            [st EXCEPT !.staged = Append(@, Declaracion(row, found, fecha)),
                                       !.success_count = @ + 1,
                                       !.outcomes = Append(@, o)])
             ELSE IF o = "rejected"
             THEN [st EXCEPT !.error_count = @ + 1, !.outcomes = Append(@, o)]
             ELSE DeclLoopM(df, i + 1, refs_, decls_, [st EXCEPT !.outcomes = Append(@, o)])

\* The for loop of _load_declarations from row i on; st carries the session's
\* pending records, the two counters and the outcome of each row so far.
RECURSIVE DeclLoop(_, _, _, _, _)
DeclLoop(df, i, refs_, decls_, st) ==
    IF i > Len(df.rows) THEN st
    ELSE LET row == df.rows[i]
             found == RowRefs(refs_, row)
             fecha == ParseCell(row.fecha_declaracion)
             o == RowOutcome(df, row, found, fecha, decls_, st.staged)
             next ==
                 IF o = "staged"
                 THEN [st EXCEPT !.staged = Append(@, Declaracion(row, found, fecha)),
                                 !.success_count = @ + 1,
                                 !.outcomes = Append(@, o)]
                 ELSE IF o = "rejected"
                 THEN [st EXCEPT !.error_count = @ + 1, !.outcomes = Append(@, o)]
                 ELSE [st EXCEPT !.outcomes = Append(@, o)]
         IN  DeclLoop(df, i + 1, refs_, decls_, next)

LoopStart == [staged |-> <<>>, success_count |-> 0, error_count |-> 0, outcomes |-> <<>>]

\* INSERT of the staged declarations: ids continue the table in staging order.
InsertDecls(decls_, staged_) ==
    decls_ \cup {[id |-> MaxId(decls_) + i] @@ staged_[i] : i \in 1..Len(staged_)}

\* ------------------------------------------------------------------ files
\* The decoded frames the files of the entry-point runs hold.
OneRow == [aduana |-> "A1", pais |-> "P1", tipo_regimen |-> "R1", tipo_unidad_medida |-> "U1",
           sac |-> 7, correlativo |-> "C1", descripcion |-> "D1",
           fecha_declaracion |-> <<"0", "1", "/", "0", "2", "/", "2", "3">>]

EmptyFrame == [columns |-> {}, rows |-> <<>>]

DecodedFrames ==
    {EmptyFrame,
     [columns |-> AllColumns, rows |-> <<OneRow>>],
     [columns |-> AllColumns, rows |-> <<OneRow, [OneRow EXCEPT !.sac = 12]>>]}

\* The outcome of one read attempt on a file: it raises, or it returns a frame.
Raise == [ok |-> FALSE, frame |-> EmptyFrame]

Returns(frame) == [ok |-> TRUE, frame |-> frame]

Outcomes == {Raise, Returns(EmptyFrame), Returns([columns |-> AllColumns, rows |-> <<OneRow>>])}

\* encodings of _read_csv_robust (strategy 4), in order.
encodings == <<"utf-8", "latin-1", "cp1252", "iso-8859-1">>

\* A path on disk: whether os.path.exists holds, and what each read attempt of
\* _read_csv_robust does on its bytes.
Files ==
    {[exists |-> FALSE, strict |-> Raise, lenient |-> Raise, repair |-> Raise,
      enc |-> [i \in 1..Len(encodings) |-> Raise]]}
    \cup [exists : {TRUE}, strict : Outcomes, lenient : Outcomes, repair : Outcomes,
          enc : [1..Len(encodings) -> {Raise, Returns([columns |-> AllColumns, rows |-> <<OneRow>>])}]]

\* The encoding loop ending in an empty frame instead of None.
RECURSIVE ReadEncodingsM(_, _)
ReadEncodingsM(f, i) ==
    IF i > Len(encodings) THEN EmptyFrame
    ELSE IF f.enc[i].ok THEN f.enc[i].frame
    ELSE ReadEncodingsM(f, i + 1)

\* The encoding loop of strategy 4 from position i on.
RECURSIVE ReadEncodings(_, _)
ReadEncodings(f, i) ==
    IF i > Len(encodings) THEN PyNone
    ELSE IF f.enc[i].ok THEN f.enc[i].frame
    ELSE ReadEncodings(f, i + 1)

\* _read_csv_robust: the frame of the first attempt that does not raise, in
\* the order strict, lenient, line by line, encodings; None when all raise.
ReadCsvRobust(f) ==
    IF f.strict.ok THEN f.strict.frame
    ELSE IF f.lenient.ok THEN f.lenient.frame
    ELSE IF f.repair.ok THEN f.repair.frame
    ELSE ReadEncodings(f, 1)

\* ------------------------------------------------------------------ results
\* load_csv_data has not returned yet.
NoResult == [pending |-> TRUE]

\* return {"status": "error", "message": ...} (lines 27 and 49).
ErrorResult(message) == [status |-> "error", message |-> message]

\* return {"status": "success", "records_loaded": len(df)} (line 44).
SuccessResult(frame) == [status |-> "success", records_loaded |-> Len(frame.rows)]

\* _load_sample_data: its body is `pass`, so the call returns None.
LoadSampleData == PyNone

\* Whether class CSVLoader defines _clean_existing_data, which load_csv_data
\* calls at line 35: it does not, so the call raises AttributeError.
HasCleanExistingData == FALSE

\* ------------------------------------------------------------------ state
VARIABLES
    refs,           \* the five reference tables, committed rows
    decls,          \* the fact table, committed rows
    file,           \* csv_file_path of the current loader
    pc,             \* where the current loader's caller is
    df,             \* the frame in use: decoded, or passed to the phase methods
    result,         \* what load_csv_data returned
    staged,         \* the declarations _load_declarations handed to db.add
    success_count,  \* the counters of _load_declarations
    error_count,
    outcomes,       \* per row of the last _load_declarations: what the loop did
    created,        \* per category: the keys _load_master_data handed to db.add
    refs0,          \* the store when the current run began
    decls0,
    again           \* the run under way repeats the frame this loader has just committed

vars == <<refs, decls, file, pc, df, result, staged, success_count, error_count,
          outcomes, created, refs0, decls0, again>>

store == <<refs, decls>>

session == <<staged, success_count, error_count, outcomes, created>>

NoneCreated == [c \in Categories |-> <<>>]

\* CSVLoader.__init__: a path and a fresh session.
FreshLoader(f) ==
    /\ file' = f
    /\ pc' = "NotStarted"
    /\ df' = PyNone
    /\ result' = NoResult
    /\ staged' = <<>>
    /\ success_count' = 0
    /\ error_count' = 0
    /\ outcomes' = <<>>
    /\ created' = NoneCreated
    /\ refs0' = refs
    /\ decls0' = decls
    /\ again' = FALSE

\* ------------------------------------------------------------------ entry point
\* The caller builds a loader for a path (main.py line 21).
Construct(f) ==
    /\ pc \in {"Returned", "Failed", "Committed"}
    /\ FreshLoader(f)
    /\ UNCHANGED store

\* load_csv_data, lines 18-21: a missing file goes to _load_sample_data and its
\* value is returned.
CheckExists ==
    /\ pc = "NotStarted"
    /\ IF file.exists
       THEN pc' = "Decoding" /\ UNCHANGED result
       ELSE pc' = "Returned" /\ result' = LoadSampleData
    /\ UNCHANGED <<store, file, df, session, refs0, decls0, again>>

\* load_csv_data, lines 24-27: decode; None ends the load with an error result.
Decode ==
    /\ pc = "Decoding"
    /\ df' = ReadCsvRobust(file)
    /\ IF IsNone(df')
       THEN pc' = "Failed" /\ result' = ErrorResult("No se pudo leer el archivo CSV")
       ELSE pc' = "Decoded" /\ UNCHANGED result
    /\ UNCHANGED <<store, file, session, refs0, decls0, again>>

\* Whether commit() of the staged reference rows goes through: the database
\* accepts it (ok) and no UNIQUE constraint is violated.
MasterCommits(refs_, keys, ok) ==
    ok /\ \A c \in Categories : ~UniqueViolated(refs_[c], keys[c])

\* load_csv_data, lines 32-49: create_all, the call of _clean_existing_data,
\* the two phases and the success result. Any exception lands in
\* `except Exception`, which rolls the session back and returns an error
\* result. ok1 and ok2 say whether the database accepts the two commits.
LoadFrame(ok1, ok2) ==
    /\ pc = "Decoded"
    /\ IF ~HasCleanExistingData
       THEN /\ pc' = "Failed"
            /\ result' = ErrorResult("AttributeError: _clean_existing_data")
            /\ UNCHANGED <<store, session>>
       ELSE LET keys == MasterStaged(df, refs)
                returned == missing_columns(df) # {}
                r1 == IF ~returned /\ MasterCommits(refs, keys, ok1)
                      THEN [c \in Categories |-> InsertRefs(refs[c], keys[c])]
                      ELSE refs
                st == DeclLoop(df, 1, r1, decls, LoopStart)
            IN  /\ created' = keys
                /\ refs' = r1
                /\ IF ~returned /\ ~MasterCommits(refs, keys, ok1)
                   THEN /\ pc' = "Failed"
                        /\ result' = ErrorResult("commit failed")
                        /\ UNCHANGED <<decls, staged, success_count, error_count, outcomes>>
                   ELSE /\ staged' = st.staged
                        /\ success_count' = st.success_count
                        /\ error_count' = st.error_count
                        /\ outcomes' = st.outcomes
                        /\ IF ok2
                           THEN /\ pc' = "Committed"
                                /\ decls' = InsertDecls(decls, st.staged)
                                /\ result' = SuccessResult(df)
                           ELSE /\ pc' = "Failed"
                                /\ result' = ErrorResult("commit failed")
                                /\ UNCHANGED decls
    /\ UNCHANGED <<file, df, refs0, decls0, again>>

\* ------------------------------------------------------------------ phases
\* The caller builds a loader and drives the two phase methods itself.
NewLoader ==
    /\ pc \in {"DeclarationsDone", "MasterRaised", "DeclarationsRaised"}
    /\ FreshLoader(file)
    /\ UNCHANGED store

\* _load_master_data(d): returns at once when a reference column is missing;
\* otherwise stages the new keys of every category and commits them together.
\* A failed commit raises to the caller.
LoadMasterData(d, ok) ==
    /\ again' = (pc = "DeclarationsDone")
    /\ df' = d
    /\ refs0' = refs
    /\ decls0' = decls
    /\ created' = MasterStaged(d, refs)
    /\ IF missing_columns(d) # {} THEN pc' = "MasterDone" /\ UNCHANGED refs
       ELSE IF MasterCommits(refs, created', ok)
       THEN /\ pc' = "MasterDone"
            /\ refs' = [c \in Categories |-> InsertRefs(refs[c], created'[c])]
       ELSE pc' = "MasterRaised" /\ UNCHANGED refs
    /\ staged' = <<>>
    /\ success_count' = 0
    /\ error_count' = 0
    /\ outcomes' = <<>>
    /\ UNCHANGED <<decls, file, result>>

\* The caller's first call of the phase, on a frame of its choice.
FirstMasterData ==
    /\ pc = "NotStarted"
    /\ \E d \in Frames, ok \in BOOLEAN : LoadMasterData(d, ok)

\* The caller runs the phases again on the frame it has just loaded.
AgainMasterData ==
    /\ pc = "DeclarationsDone"
    /\ \E ok \in BOOLEAN : LoadMasterData(df, ok)

\* _load_declarations(df): the loop over the rows, then one commit of what was
\* staged. A failed commit raises to the caller and persists nothing.
LoadDeclarations(ok) ==
    /\ pc = "MasterDone"
    /\ LET st == DeclLoop(df, 1, refs, decls, LoopStart) IN
       /\ staged' = st.staged
       /\ success_count' = st.success_count
       /\ error_count' = st.error_count
       /\ outcomes' = st.outcomes
       /\ IF ok
          THEN pc' = "DeclarationsDone" /\ decls' = InsertDecls(decls, st.staged)
          ELSE pc' = "DeclarationsRaised" /\ UNCHANGED decls
    /\ UNCHANGED <<refs, file, df, result, created, refs0, decls0, again>>

\* ------------------------------------------------------------------ specifications
\* A store earlier loads can have left behind.
StoreAfter(st, d) ==
    LET keys == MasterStaged(d, st.refs)
        r == [c \in Categories |-> InsertRefs(st.refs[c], keys[c])]
    IN  [refs |-> r, decls |-> InsertDecls(st.decls, DeclLoop(d, 1, r, st.decls, LoopStart).staged)]

PriorStores == {EmptyStore} \cup {StoreAfter(EmptyStore, d) : d \in DecodedFrames}

\* The entry point: a loader is built for a path and load_csv_data is run on it.
Init ==
    /\ \E st \in PriorStores : refs = st.refs /\ decls = st.decls
    /\ file \in Files
    /\ pc = "NotStarted"
    /\ df = PyNone
    /\ result = NoResult
    /\ staged = <<>>
    /\ success_count = 0
    /\ error_count = 0
    /\ outcomes = <<>>
    /\ created = NoneCreated
    /\ refs0 = refs
    /\ decls0 = decls
    /\ again = FALSE

Next ==
    \/ \E f \in Files : Construct(f)
    \/ CheckExists
    \/ Decode
    \/ \E ok1, ok2 \in BOOLEAN : LoadFrame(ok1, ok2)

Spec == Init /\ [][Next]_vars

\* The phase methods, driven by a caller on an initially empty store.
PhasesFile == CHOOSE f \in Files : ~f.exists

InitPhases ==
    /\ refs = EmptyRefs
    /\ decls = {}
    /\ file = PhasesFile
    /\ pc = "NotStarted"
    /\ df = PyNone
    /\ result = NoResult
    /\ staged = <<>>
    /\ success_count = 0
    /\ error_count = 0
    /\ outcomes = <<>>
    /\ created = NoneCreated
    /\ refs0 = refs
    /\ decls0 = decls
    /\ again = FALSE

NextPhases ==
    \/ NewLoader
    \/ FirstMasterData
    \/ AgainMasterData
    \/ \E ok \in BOOLEAN : LoadDeclarations(ok)

SpecPhases == InitPhases /\ [][NextPhases]_vars

\* ------------------------------------------------------------------ encodings
\* The one-row frame a read attempt returns, told apart by the attempt.
FrameOf(tag) == [columns |-> AllColumns, rows |-> <<[OneRow EXCEPT !.descripcion = tag]>>]

\* Files described by what each read does on their bytes under each encoding
\* of the list: enc is the pd.read_csv of the encoding loop (lines 102-109),
\* lenient_enc and repair_enc what the lenient read (lines 74-84) and the
\* line-by-line read (lines 125-162) would do. Under utf-8, the first of the
\* list, these two are the reads of strategies 2 and 3.
EncodedFiles ==
    [exists : {TRUE},
      strict : {Raise, Returns(FrameOf("strict"))},
      lenient : {Raise, Returns(FrameOf("lenient"))},
      repair : {Raise, Returns(FrameOf("repair"))},
      enc : [1..Len(encodings) ->
              {Raise, Returns(EmptyFrame), Returns(FrameOf("encoding"))}],
      lenient_enc : [2..Len(encodings) -> {Raise, Returns(FrameOf("lenient"))}],
      repair_enc : [2..Len(encodings) -> {Raise, Returns(FrameOf("repair"))}]]

\* The decoder run on such a file (load_csv_data, lines 18-27).
InitRead ==
    /\ refs = EmptyRefs
    /\ decls = {}
    /\ file \in EncodedFiles
    /\ pc = "NotStarted"
    /\ df = PyNone
    /\ result = NoResult
    /\ staged = <<>>
    /\ success_count = 0
    /\ error_count = 0
    /\ outcomes = <<>>
    /\ created = NoneCreated
    /\ refs0 = refs
    /\ decls0 = decls
    /\ again = FALSE

NextRead ==
    \/ CheckExists
    \/ Decode

SpecRead == InitRead /\ [][NextRead]_vars

\* ------------------------------------------------------------------ line repair
\* Most fields on a line, and most data lines, of the files read line by line.
MaxFields == 3

MaxLines == 2

\* A line as csv.reader yields it: the list of its fields (none for a blank
\* line), each field spelling where it stands on its line.
FieldValues == {"x", "y"}

Lines == {[i \in 1..n |-> v \o Str(i)] : n \in 0..MaxFields, v \in FieldValues}

\* A header line of n columns.
HeaderLine(n) == [i \in 1..n |-> "h" \o Str(i)]

\* The file as csv.reader yields it: nothing, or a header and the data lines.
LineFiles ==
    {<<>>} \cup
    UNION {{<<HeaderLine(n)>> \o ls : ls \in [1..m -> Lines]} :
            n \in 0..MaxFields, m \in 0..MaxLines}

\* Python's row[:k] and row[k:], a negative k counting from the end.
SliceTo(row, k) ==
    LET stop == IF k < 0 THEN (IF Len(row) + k < 0 THEN 0 ELSE Len(row) + k)
                ELSE (IF k > Len(row) THEN Len(row) ELSE k)
    IN  SubSeq(row, 1, stop)

SliceFrom(row, k) ==
    LET start == IF k < 0 THEN (IF Len(row) + k < 0 THEN 0 ELSE Len(row) + k)
                 ELSE (IF k > Len(row) THEN Len(row) ELSE k)
    IN  SubSeq(row, start + 1, Len(row))

\* ';'.join(fields)
RECURSIVE Join(_)
Join(fields) ==
    IF fields = <<>> THEN ""
    ELSE IF Len(fields) = 1 THEN fields[1]
    ELSE fields[1] \o ";" \o Join(Tail(fields))

\* Short lines kept as they are.
RepairRowM(row, expected_cols) ==
    IF Len(row) > expected_cols
    THEN SliceTo(row, expected_cols - 1) \o <<Join(SliceFrom(row, expected_cols - 1))>>
    ELSE row

\* What lines 136-150 append to valid_rows for a data line.
RepairRow(row, expected_cols) ==
    IF Len(row) = expected_cols THEN row
    ELSE IF Len(row) > expected_cols
    THEN SliceTo(row, expected_cols - 1) \o <<Join(SliceFrom(row, expected_cols - 1))>>
    ELSE row \o [i \in 1..(expected_cols - Len(row)) |-> ""]

\* pd.DataFrame(valid_rows, columns=headers): the widest row must have as many
\* fields as there are columns, else ValueError; a narrower row is filled up
\* with missing values.
DataFrame(valid_rows, headers) ==
    IF valid_rows # <<>> /\ \E i \in 1..Len(valid_rows) :
            /\ Len(valid_rows[i]) # Len(headers)
            /\ \A j \in 1..Len(valid_rows) : Len(valid_rows[j]) <= Len(valid_rows[i])
    THEN Raise
    ELSE Returns([columns |-> {headers[k] : k \in 1..Len(headers)},
                  rows |-> [i \in 1..Len(valid_rows) |->
                             [h \in {headers[k] : k \in 1..Len(headers)} |->
                                 LET k == CHOOSE k \in 1..Len(headers) : headers[k] = h
                                 IN  IF k <= Len(valid_rows[i]) THEN valid_rows[i][k] ELSE NaN]]])

\* _read_csv_line_by_line on the lines of a file: the first line is the header,
\* every other line goes through the repair; an empty file gives headers None.
ReadCsvLineByLine(lines) ==
    IF lines = <<>> THEN Returns(EmptyFrame)
    ELSE DataFrame([i \in 1..(Len(lines) - 1) |-> RepairRow(lines[i + 1], Len(lines[1]))],
                   lines[1])

\* Files on which both pd.read_csv strategies raise, so that the decoder reads
\* them line by line.
RepairFiles ==
    {[exists |-> TRUE, strict |-> Raise, lenient |-> Raise, lines |-> ls,
      repair |-> ReadCsvLineByLine(ls), enc |-> [i \in 1..Len(encodings) |-> Raise]] :
        ls \in LineFiles}

InitRepair ==
    /\ refs = EmptyRefs
    /\ decls = {}
    /\ file \in RepairFiles
    /\ pc = "NotStarted"
    /\ df = PyNone
    /\ result = NoResult
    /\ staged = <<>>
    /\ success_count = 0
    /\ error_count = 0
    /\ outcomes = <<>>
    /\ created = NoneCreated
    /\ refs0 = refs
    /\ decls0 = decls
    /\ again = FALSE

NextRepair ==
    \/ CheckExists
    \/ Decode

SpecRepair == InitRepair /\ [][NextRepair]_vars

\* ------------------------------------------------------------------ date cells
\* The two characters of a two-digit number.
TwoDigits(n) == <<digits[(n \div 10) + 1], digits[(n % 10) + 1]>>

\* Every year a two-character year field can spell.
TwoDigitYears == 0..99

\* The date cells of the rows: D/M/YY for every two-digit year, on a day that
\* is in every calendar year and on one that is not; four-digit years; the
\* Y-M-D shape; blank, empty and separator-free cells.
DateStrings ==
    {dd \o <<"/">> \o mm \o <<"/">> \o TwoDigits(yy) :
        dd \in {<<"1", "5">>, <<"2", "9">>}, mm \in {<<"0", "2">>, <<"0", "3">>},
        yy \in TwoDigitYears}
    \cup {<<"1", "5", "/", "0", "3", "/">> \o y :
            y \in {<<"1", "9", "4", "9">>, <<"2", "0", "5", "1">>, <<"0", "0", "5", "1">>,
                   <<"5">>}}
    \cup {<<" ", "1", "5", "/", "0", "3", "/", "5", "1", " ">>,
          <<"2", "0", "2", "3", "-", "0", "2", "-", "0", "1">>,
          <<"1", "5", "0", "3", "4", "9">>,
          <<"1", "5", "/", "0", "3">>,
          <<" ", " ">>,
          <<>>}

\* A one-row frame carrying the date cell.
DateFrame(s) == [columns |-> AllColumns, rows |-> <<[OneRow EXCEPT !.fecha_declaracion = s]>>]

\* The caller hands the phases a row with a date cell of its choice.
DateMasterData ==
    /\ pc = "NotStarted"
    /\ \E s \in DateStrings, ok \in BOOLEAN : LoadMasterData(DateFrame(s), ok)

NextDates ==
    \/ DateMasterData
    \/ \E ok \in BOOLEAN : LoadDeclarations(ok)

SpecDates == InitPhases /\ [][NextDates]_vars

\* ------------------------------------------------------------------ claims
HasStatus(r, st) == "status" \in DOMAIN r /\ r.status = st

Returned == pc \in {"Returned", "Failed", "Committed"}

\* A row with a value in each reference column and a date that parses.
WellFormedRow(row) ==
    /\ \A c \in Categories \ {"sac"} : row[c] # NaN
    /\ IsDate(ParseDate(row.fecha_declaracion))

WellFormedFrame(d) ==
    /\ d.columns = AllColumns
    /\ \A i \in 1..Len(d.rows) : WellFormedRow(d.rows[i])

\* The natural key of a row of the file, and of a persisted record.
FileKey(row) == <<row.correlativo, Str(row.sac), row.descripcion>>

PersistedKey(d) ==
    <<d.correlativo, (CHOOSE e \in refs["sac"] : e.id = d.codigo_sac_id).key, d.descripcion>>

\* C1: a load of an existing file of well-formed rows on an empty store ends
\* with status success and one persisted record per distinct natural key of
\* the file.
C1_WellFormedFileLoadsOncePerKey ==
    (Returned /\ file.exists /\ ~IsNone(df) /\ WellFormedFrame(df)
        /\ refs0 = EmptyRefs /\ decls0 = {})
    => /\ HasStatus(result, "success")
       /\ \A i \in 1..Len(df.rows) :
            Cardinality({d \in decls : PersistedKey(d) = FileKey(df.rows[i])}) = 1

\* C2: whatever the path taken, load_csv_data returns a result whose status is
\* success or error.
C2_AlwaysStructuredResult ==
    Returned => (HasStatus(result, "success") \/ HasStatus(result, "error"))

\* C3: a second run of the two phases on the rows a first run has committed
\* adds no reference entity and no declaration record.
C3_SecondRunAddsNothing ==
    (again /\ pc \in {"MasterDone", "DeclarationsDone", "MasterRaised", "DeclarationsRaised"})
    => /\ refs = refs0
       /\ decls = decls0
       /\ created = NoneCreated
       /\ staged = <<>>

C3_Witness ==
    /\ pc = "DeclarationsDone"
    /\ again
    /\ decls # {}
    /\ \E i \in 1..Len(outcomes) : outcomes[i] = "duplicate"

\* C4: the result of load_csv_data carries a records-loaded count equal to the
\* number of declaration records the load newly persisted.
C4_RecordsLoadedCountsNewRecords ==
    (Returned /\ file.exists /\ ~IsNone(df))
    => /\ "records_loaded" \in DOMAIN result
       /\ result.records_loaded = Cardinality(decls) - Cardinality(decls0)

\* C5: no two persisted declaration records share the natural key
\* (correlativo, tariff code id, description).
C5_NaturalKeyUnique ==
    \A d1, d2 \in decls :
        (d1.correlativo = d2.correlativo /\ d1.codigo_sac_id = d2.codigo_sac_id
            /\ d1.descripcion = d2.descripcion) => d1 = d2

\* C6: when the commit of the declarations fails, the store holds none of the
\* records the load staged and the load has returned a result with status
\* error.
C6_FailedCommitIsErrorResult ==
    pc = "DeclarationsRaised" => (decls = decls0 /\ HasStatus(result, "error"))

\* The keys present (not missing) in a column of a frame.
PresentKeys(d, c) ==
    {KeyOf(c, d.rows[i][c]) : i \in {j \in 1..Len(d.rows) : c = "sac" \/ d.rows[j][c] # NaN}}

\* C7: within a reference category no two persisted entities share a natural
\* key or an id, an entity once persisted stays as it is, and a run creates
\* entities only for keys that are in its frame and were not yet persisted.
C7_ReferenceEntitiesUniqueAndStable ==
    \A c \in Categories :
        /\ \A e1, e2 \in refs[c] : (e1.key = e2.key \/ e1.id = e2.id) => e1 = e2
        /\ refs0[c] \subseteq refs[c]
        /\ \A e \in refs[c] \ refs0[c] :
            /\ e.key \in PresentKeys(df, c)
            /\ \A e0 \in refs0[c] : e0.key # e.key

C7_Witness ==
    /\ pc = "MasterDone"
    /\ refs0["aduana"] # {}
    /\ refs["aduana"] # refs0["aduana"]
    /\ refs["sac"] = refs0["sac"]

\* C8: a run of load_csv_data on an existing file ends Committed with status
\* success after both phases, or Failed with status error, and Failed is
\* entered only when the file could not be decoded or a commit failed.
C8_FailedOnlyOnDecodeOrPersistence ==
    /\ pc = "Failed" =>
        (HasStatus(result, "error")
            /\ (IsNone(df) \/ result = ErrorResult("commit failed")))
    /\ pc = "Committed" => HasStatus(result, "success")
    /\ (Returned /\ file.exists) => pc \in {"Committed", "Failed"}

\* Every read attempt on the file raises.
AllAttemptsRaise(f) ==
    /\ ~f.strict.ok /\ ~f.lenient.ok /\ ~f.repair.ok
    /\ \A i \in 1..Len(encodings) : ~f.enc[i].ok

\* C9: when every strategy and every encoding fails on an existing file, the
\* load ends with status error and the store is as it was.
C9_UnreadableFileFailsStoreUntouched ==
    (file.exists /\ AllAttemptsRaise(file) /\ pc \notin {"NotStarted", "Decoding"})
    => /\ pc = "Failed"
       /\ IsNone(df)
       /\ HasStatus(result, "error")
       /\ refs = refs0
       /\ decls = decls0

C9_Witness ==
    /\ pc = "Failed"
    /\ file.exists
    /\ AllAttemptsRaise(file)
    /\ decls # {}

\* C10: when the frame lacks one of the five reference columns, the master
\* phase creates no reference entity in any category and the load persists no
\* declaration record.
C10_MissingColumnLoadsNothing ==
    (pc \in {"MasterDone", "DeclarationsDone", "MasterRaised", "DeclarationsRaised"}
        /\ \E c \in Categories : c \notin df.columns)
    => /\ refs = refs0
       /\ created = NoneCreated
       /\ decls = decls0
       /\ staged = <<>>

C10_Witness ==
    /\ pc = "DeclarationsDone"
    /\ \E c \in Categories : c \notin df.columns
    /\ refs["aduana"] # {}
    /\ \E i \in 1..Len(df.rows) :
        /\ df.rows[i].aduana # NaN
        /\ \A e \in refs["aduana"] : e.key # df.rows[i].aduana

\* C11: the reference entities a load created are in the store only once that
\* load's declaration records are committed too: never while the declarations
\* are still to be committed, and never after their commit has failed.
C11_SingleTransaction ==
    pc \in {"MasterDone", "MasterRaised", "DeclarationsRaised"} => refs = refs0

\* The read attempts of _read_csv_robust on a file, in the order it makes them.
Attempts(f) == <<f.strict, f.lenient, f.repair>> \o f.enc

ProducesRows(a) == a.ok /\ a.frame.rows # <<>>

\* C12: the decoder returns the frame of the first attempt, in the order
\* strict, lenient, line repair, encodings, that produces at least one row; an
\* attempt that completes with zero rows does not end the sequence.
C12_FirstStrategyWithRowsWins ==
    (file.exists /\ pc \notin {"NotStarted", "Decoding"}
        /\ \E i \in 1..Len(Attempts(file)) : ProducesRows(Attempts(file)[i]))
    => LET first == CHOOSE i \in 1..Len(Attempts(file)) :
                        /\ ProducesRows(Attempts(file)[i])
                        /\ \A j \in 1..(i - 1) : ~ProducesRows(Attempts(file)[j])
       IN  df = Attempts(file)[first].frame

\* The three reads the encoding fallback is said to make under encoding i.
EncodingAttempts(f, i) ==
    IF i = 1 THEN <<f.enc[i], f.lenient, f.repair>>
    ELSE <<f.enc[i], f.lenient_enc[i], f.repair_enc[i]>>

\* C13: once strategies 1 to 3 have failed, the decoder returns the frame of
\* the first read, going through the encodings in order and under each through
\* strict, lenient and line repair, that yields at least one row.
C13_EncodingFallbackRetriesEveryStrategy ==
    (file.exists /\ "repair_enc" \in DOMAIN file /\ pc \notin {"NotStarted", "Decoding"}
        /\ ~file.strict.ok /\ ~file.lenient.ok /\ ~file.repair.ok
        /\ \E i \in 1..Len(encodings), k \in 1..3 : ProducesRows(EncodingAttempts(file, i)[k]))
    => LET first == CHOOSE ik \in (1..Len(encodings)) \X (1..3) :
                        /\ ProducesRows(EncodingAttempts(file, ik[1])[ik[2]])
                        /\ \A jl \in (1..Len(encodings)) \X (1..3) :
                            (jl[1] < ik[1] \/ (jl[1] = ik[1] /\ jl[2] < ik[2]))
                            => ~ProducesRows(EncodingAttempts(file, jl[1])[jl[2]])
       IN  df = EncodingAttempts(file, first[1])[first[2]].frame

\* What a data line is said to become under a header of n columns: column k.
RepairedField(line, n, k) ==
    IF Len(line) > n /\ k = n THEN Join(SubSeq(line, n, Len(line)))
    ELSE IF k <= Len(line) THEN line[k]
    ELSE ""

LineRepairKeepsEveryLine ==
    /\ ~IsNone(df)
    /\ Len(df.rows) = Len(file.lines) - 1
    /\ \A i \in 1..Len(df.rows) :
        /\ DOMAIN df.rows[i] = {file.lines[1][k] : k \in 1..Len(file.lines[1])}
        /\ Cardinality(DOMAIN df.rows[i]) = Len(file.lines[1])
        /\ \A k \in 1..Len(file.lines[1]) :
            df.rows[i][file.lines[1][k]] = RepairedField(file.lines[i + 1], Len(file.lines[1]), k)

\* C14 as stated: read line by line, every data line of a file gives one row,
\* in order, with as many fields as the header; excess fields are joined with
\* the delimiter into the last column, missing ones are empty strings.
C14_LineRepairKeepsEveryLine ==
    ("lines" \in DOMAIN file /\ file.lines # <<>> /\ pc \notin {"NotStarted", "Decoding"})
    => LineRepairKeepsEveryLine

\* C14, amended: the same, for a header of at least one field.
C14_LineRepairUnderHeader ==
    ("lines" \in DOMAIN file /\ file.lines # <<>> /\ file.lines[1] # <<>>
        /\ pc \notin {"NotStarted", "Decoding"})
    => LineRepairKeepsEveryLine

C14_Witness ==
    /\ pc = "Decoded"
    /\ "lines" \in DOMAIN file
    /\ Len(file.lines) = 3
    /\ Len(file.lines[1]) = 2
    /\ Len(file.lines[2]) = 3
    /\ Len(file.lines[3]) = 1
    /\ Len(df.rows) = 2

\* _load_declarations has gone through the frame and reached its commit.
DeclarationsRun == pc \in {"DeclarationsDone", "DeclarationsRaised"}

\* The rows of the frame the loop gave the outcome o.
RowsWith(o) == {i \in 1..Len(outcomes) : outcomes[i] = o}

\* A row that passes every check of the loop: the reference columns are there,
\* each of its five values has its entity, and its date parses.
Resolves(row, c) == \E e \in refs[c] : e.key = KeyOf(c, row[c])

ValidRow(row) ==
    /\ df.columns = AllColumns
    /\ \A c \in Categories : Resolves(row, c)
    /\ IsDate(ParseCell(row.fecha_declaracion))

\* A record of the given records carries the natural key of the row.
KeyAmong(records, row) ==
    \E d \in records :
        /\ d.correlativo = row.correlativo
        /\ d.descripcion = row.descripcion
        /\ \E e \in refs["sac"] : e.id = d.codigo_sac_id /\ e.key = Str(row.sac)

\* C15: rejected rows only add to the error count: the loop still goes through
\* every row of the frame, each valid row not yet in the store has its record
\* staged, and committed when the commit goes through.
C15_RejectedRowsDoNotStopTheLoad ==
    DeclarationsRun
    => /\ Len(outcomes) = Len(df.rows)
       /\ error_count = Cardinality(RowsWith("rejected"))
       /\ \A i \in 1..Len(df.rows) :
            (ValidRow(df.rows[i]) /\ ~KeyAmong(decls0, df.rows[i]))
            => /\ outcomes[i] = "staged"
               /\ KeyAmong({staged[k] : k \in 1..Len(staged)}, df.rows[i])
               /\ pc = "DeclarationsDone" => KeyAmong(decls \ decls0, df.rows[i])

C15_Witness ==
    /\ pc = "DeclarationsDone"
    /\ outcomes = <<"rejected", "staged">>
    /\ error_count = 1
    /\ Cardinality(decls) = Cardinality(decls0) + 1

ForeignKey == [c \in Categories |->
    CASE c = "aduana" -> "aduana_id"
      [] c = "pais" -> "pais_id"
      [] c = "tipo_regimen" -> "tipo_regimen_id"
      [] c = "tipo_unidad_medida" -> "unidad_medida_id"
      [] c = "sac" -> "codigo_sac_id"]

\* The record staged for row i: the staged rows keep the order of the frame.
StagedFor(i) == staged[Cardinality({j \in RowsWith("staged") : j <= i})]

\* The record points, in every category, at the persisted entity of the row's
\* value.
ReferencesRow(d, row) ==
    \A c \in Categories :
        \E e \in refs[c] : e.id = d[ForeignKey[c]] /\ e.key = KeyOf(c, row[c])

\* C18: every staged declaration references, in each of the five categories,
\* a persisted reference entity whose natural key is the row's value in that
\* column; a row with a value that has no entity is rejected, not staged.
C18_StagedRecordsReferenceTheirEntities ==
    DeclarationsRun
    => /\ \A i \in RowsWith("staged") : ReferencesRow(StagedFor(i), df.rows[i])
       /\ \A i \in 1..Len(df.rows) :
            (\E c \in Categories : c \notin df.columns \/ ~Resolves(df.rows[i], c))
            => outcomes[i] = "rejected"
       /\ pc = "DeclarationsDone"
          => \A d \in decls \ decls0 :
                \E i \in RowsWith("staged") :
                    /\ ReferencesRow(d, df.rows[i])
                    /\ d.correlativo = df.rows[i].correlativo

C18_Witness ==
    /\ pc = "DeclarationsDone"
    /\ outcomes = <<"staged", "rejected">>
    /\ df.rows[1].aduana = "A2"
    /\ df.rows[2].aduana = NaN
    /\ refs0["aduana"] # {}
    /\ Cardinality(decls \ decls0) = 1

\* The date cell of the row under way, and the date _parse_date made of it.
Cell == Strip(df.rows[1].fecha_declaracion)

Parsed == staged[1].fecha_declaracion

\* The year a D/M/Y cell is said to stand for.
ClaimedYear(year) ==
    IF Len(year) = 2
    THEN (IF ToInt(year) >= 51 THEN 1900 + ToInt(year) ELSE 2000 + ToInt(year))
    ELSE ToInt(year)

\* C17: a D/M/Y cell with a two-digit year yy is the date of year 1900 + yy
\* when yy >= 51 and of year 2000 + yy otherwise; a four-digit year is kept;
\* an empty cell and a cell with neither '/' nor '-' are invalid.
C17_CenturyPivot ==
    (DeclarationsRun /\ Len(df.rows) = 1)
    => /\ (Cell = <<>> \/ (~Contains(Cell, "/") /\ ~Contains(Cell, "-")))
          => outcomes = <<"rejected">>
       /\ (Contains(Cell, "/") /\ Len(Split(Cell, "/")) = 3
            /\ Len(Split(Cell, "/")[3]) \in {2, 4})
          => LET day == ToInt(Split(Cell, "/")[1])
                 month == ToInt(Split(Cell, "/")[2])
                 year == ClaimedYear(Split(Cell, "/")[3])
             IN  IF ValidDate(year, month, day)
                 THEN /\ outcomes = <<"staged">>
                      /\ Parsed = [year |-> year, month |-> month, day |-> day]
                 ELSE outcomes = <<"rejected">>

C17_Witness ==
    /\ pc = "DeclarationsDone"
    /\ Len(df.rows) = 1
    /\ Split(Cell, "/") = <<<<"1", "5">>, <<"0", "3">>, <<"5", "0">>>>
    /\ outcomes = <<"staged">>
    /\ Parsed.year = 2050

====
